---- MODULE Spec2Model ----
(***************************************************************************)
(* Request handling of the "gallery" and "hello" Django applications:      *)
(* the two URL tables, the gallery views (PostListView, image_upload,      *)
(* success) and the stored Post set they read and write.                   *)
(*                                                                         *)
(* One request is handled at a time (synchronous request-per-call).  A     *)
(* request is [app, path, method, files]: app is the namespace whose       *)
(* include() prefix matched, path the remainder handed to the app's        *)
(* urlpatterns, files the content of request.FILES.                        *)
(***************************************************************************)
EXTENDS Integers, Sequences, FiniteSets, TLC

VARIABLES
    posts,        \* the stored Post records (rows of the Post table)
    nextId,       \* next primary key the database assigns
    storageUp,    \* environment: file storage and database accept writes
    request,      \* the request handled last
    response,     \* the response to it
    before,       \* history: the Post set when that request arrived
    prevResponse, \* history: the response to the request before it
    origin,       \* history: primary key -> request whose handling stored it
    saveCalls,    \* history: calls of form.save() while handling the request
    raised        \* history: form.save() raised while handling the request

vars == << posts, nextId, storageUp, request, response, before, prevResponse,
           origin, saveCalls, raised >>

-----------------------------------------------------------------------------
(* Bounds and input domains *)

\* The store holds at most MaxPosts records in the explored runs.
MaxPosts == 2

NoFile == "<no file>"
ImageFiles == {"cat.png", "dog.jpg"}
Uploads == {NoFile, "notes.txt"} \cup ImageFiles
Methods == {"GET", "HEAD", "POST", "PUT", "DELETE"}
Apps == {"gallery", "hello"}
Paths == {"", "image_upload", "success", "second/"}

Requests == [app : Apps, path : Paths, method : Methods, files : Uploads]
NoRequest == [app |-> "-", path |-> "-", method |-> "-", files |-> NoFile]

-----------------------------------------------------------------------------
(* Routing *)

Resolver404 == "Resolver404"
NoReverseMatch == "NoReverseMatch"

gallery_app_name == "gallery"
hello_app_name == "hello"

\* A table with the 'image_upload' and 'success' handlers exchanged.
gallery_urlpatterns_Swapped ==
    << [route |-> "",             view |-> "PostListView", name |-> "index"],
       [route |-> "image_upload", view |-> "success",      name |-> "image_upload"],
       [route |-> "success",      view |-> "image_upload", name |-> "success"] >>

gallery_urlpatterns ==
    << [route |-> "",             view |-> "PostListView", name |-> "index"],
       [route |-> "image_upload", view |-> "image_upload", name |-> "image_upload"],
       [route |-> "success",      view |-> "success",      name |-> "success"] >>

hello_urlpatterns ==
    << [route |-> "",        view |-> "IndexView", name |-> "index"],
       [route |-> "second/", view |-> "second",    name |-> "second"] >>

\* The URL table registered under a namespace.
urlpatterns(app) ==
    IF app = gallery_app_name THEN gallery_urlpatterns
    ELSE IF app = hello_app_name THEN hello_urlpatterns
    ELSE << >>

\* path() matches the whole remaining path; the first matching entry wins.
resolve(app, path) ==
    LET pats == urlpatterns(app)
        hits == {i \in 1..Len(pats) : pats[i].route = path}
    IN  IF hits = {} THEN Resolver404
        ELSE pats[CHOOSE i \in hits : \A j \in hits : i <= j].view

\* reverse() of a namespaced view name <<namespace, name>>.
reverse(viewname) ==
    LET pats == urlpatterns(viewname[1])
        hits == {i \in 1..Len(pats) : pats[i].name = viewname[2]}
    IN  IF hits = {} THEN NoReverseMatch
        ELSE pats[CHOOSE i \in hits : \A j \in hits : i <= j].route

-----------------------------------------------------------------------------
(* The form binder (gallery/forms.py, gallery/models.py) *)

NoForm == [cls |-> "None", is_bound |-> FALSE, files |-> NoFile, errors |-> FALSE]

\* UploadForm(): no data, nothing to validate.
UploadForm_unbound ==
    [cls |-> "UploadForm", is_bound |-> FALSE, files |-> NoFile, errors |-> FALSE]

\* UploadForm(request.POST, request.FILES): the form carries the submitted
\* file and, once cleaned, the field errors: the image is required and must
\* be an image file.
UploadForm(files) ==
    [cls |-> "UploadForm", is_bound |-> TRUE, files |-> files,
     errors |-> files \notin ImageFiles]

is_valid(form) == form.is_bound /\ ~form.errors

\* form.save(): writes the file and inserts one Post row under a fresh primary
\* key.  It raises, storing nothing, when the form has errors or when storage
\* or the database refuses the write.
save(form, db, up) ==
    IF form.errors \/ ~up
    THEN [raised |-> TRUE, db |-> db]
    ELSE [raised |-> FALSE,
          db |-> [posts  |-> db.posts \cup {[id |-> db.nextId, image |-> form.files]},
                  nextId |-> db.nextId + 1]]

-----------------------------------------------------------------------------
(* Responses *)

NoLocation == "<no location>"
NoTemplate == "<no template>"

HttpResponse(kind, status, template, form, object_list, location) ==
    [kind |-> kind, status |-> status, template |-> template, form |-> form,
     object_list |-> object_list, location |-> location]

NoResponse == HttpResponse("none", 0, NoTemplate, NoForm, {}, NoLocation)

\* render(request, template, context)
render(template, form, object_list) ==
    HttpResponse("render", 200, template, form, object_list, NoLocation)

\* An exception leaving the handler: the framework's error response.
ServerError == HttpResponse("error", 500, NoTemplate, NoForm, {}, NoLocation)

\* redirect(viewname): 302 to the reversed URL; NoReverseMatch is not caught.
redirect(viewname) ==
    IF reverse(viewname) = NoReverseMatch THEN ServerError
    ELSE HttpResponse("redirect", 302, NoTemplate, NoForm, {}, reverse(viewname))

NotFound404 == HttpResponse("notfound", 404, NoTemplate, NoForm, {}, NoLocation)
NotAllowed405 == HttpResponse("notallowed", 405, NoTemplate, NoForm, {}, NoLocation)

\* What a handler hands back: the response, the database after it, and how
\* often it called form.save() and whether that raised.
Result(resp, db, calls, exc) ==
    [response |-> resp, db |-> db, saveCalls |-> calls, raised |-> exc]

-----------------------------------------------------------------------------
(* gallery/views.py *)

\* A list view that leaves out the record stored last (a stale result).
PostListView_Stale(req, db) ==
    IF req.method \in {"GET", "HEAD"}
    THEN Result(render("gallery/index.html", NoForm,
                       {p \in db.posts : p.id + 1 < db.nextId}), db, 0, FALSE)
    ELSE Result(NotAllowed405, db, 0, FALSE)

\* ListView with model = Post: get() (and head()) render Post.objects.all(),
\* queried anew on every request; any other method is 405.
PostListView(req, db) ==
    IF req.method \in {"GET", "HEAD"}
    THEN Result(render("gallery/index.html", NoForm, db.posts), db, 0, FALSE)
    ELSE Result(NotAllowed405, db, 0, FALSE)

\* The handler without 'return redirect(...)': falls through to render.
image_upload_NoRedirect(req, db, up) ==
    IF req.method = "POST"
    THEN LET form == UploadForm(req.files) IN
         IF is_valid(form)
         THEN LET s == save(form, db, up) IN
              IF s.raised THEN Result(ServerError, s.db, 1, TRUE)
              ELSE Result(render("gallery/upload.html", form, {}), s.db, 1, FALSE)
         ELSE Result(render("gallery/upload.html", form, {}), db, 0, FALSE)
    ELSE Result(render("gallery/upload.html", UploadForm_unbound, {}), db, 0, FALSE)

\* The handler rendering a fresh form after a failed validation.
image_upload_FreshForm(req, db, up) ==
    IF req.method = "POST"
    THEN LET form == UploadForm(req.files) IN
         IF is_valid(form)
         THEN LET s == save(form, db, up) IN
              IF s.raised THEN Result(ServerError, s.db, 1, TRUE)
              ELSE Result(redirect(<<"gallery", "success">>), s.db, 1, FALSE)
         ELSE Result(render("gallery/upload.html", UploadForm_unbound, {}), db, 0, FALSE)
    ELSE Result(render("gallery/upload.html", UploadForm_unbound, {}), db, 0, FALSE)

\* The handler binding the form on every method, rendering it when not POST.
image_upload_BindsOnGet(req, db, up) ==
    LET form == UploadForm(req.files) IN
    IF req.method = "POST"
    THEN IF is_valid(form)
         THEN LET s == save(form, db, up) IN
              IF s.raised THEN Result(ServerError, s.db, 1, TRUE)
              ELSE Result(redirect(<<"gallery", "success">>), s.db, 1, FALSE)
         ELSE Result(render("gallery/upload.html", form, {}), db, 0, FALSE)
    ELSE Result(render("gallery/upload.html", form, {}), db, 0, FALSE)

\* The handler without the method test: every request is a submission.
image_upload_AnyMethod(req, db, up) ==
    LET form == UploadForm(req.files) IN
    IF is_valid(form)
    THEN LET s == save(form, db, up) IN
         IF s.raised THEN Result(ServerError, s.db, 1, TRUE)
         ELSE Result(redirect(<<"gallery", "success">>), s.db, 1, FALSE)
    ELSE Result(render("gallery/upload.html", form, {}), db, 0, FALSE)

\* The handler saving into the first stored Post (instance = Post.objects.first())
\* instead of inserting a new one.
image_upload_UpdatesFirst(req, db, up) ==
    IF req.method = "POST"
    THEN LET form == UploadForm(req.files) IN
         IF is_valid(form)
         THEN LET s == save(form, db, up) IN
              IF s.raised THEN Result(ServerError, s.db, 1, TRUE)
              ELSE IF db.posts = {}
                   THEN Result(redirect(<<"gallery", "success">>), s.db, 1, FALSE)
                   ELSE LET first == CHOOSE p \in db.posts :
                                         \A q \in db.posts : p.id <= q.id
                        IN  Result(redirect(<<"gallery", "success">>),
                                   [db EXCEPT !.posts = (db.posts \ {first}) \cup
                                       {[id |-> first.id, image |-> form.files]}],
                                   1, FALSE)
         ELSE Result(render("gallery/upload.html", form, {}), db, 0, FALSE)
    ELSE Result(render("gallery/upload.html", UploadForm_unbound, {}), db, 0, FALSE)

\* The handler catching the exception of form.save() and showing the form again.
image_upload_SwallowsError(req, db, up) ==
    IF req.method = "POST"
    THEN LET form == UploadForm(req.files) IN
         IF is_valid(form)
         THEN LET s == save(form, db, up) IN
              IF s.raised
              THEN Result(render("gallery/upload.html", form, {}), s.db, 1, TRUE)
              ELSE Result(redirect(<<"gallery", "success">>), s.db, 1, FALSE)
         ELSE Result(render("gallery/upload.html", form, {}), db, 0, FALSE)
    ELSE Result(render("gallery/upload.html", UploadForm_unbound, {}), db, 0, FALSE)

\* The handler restricted to GET and POST (as under require_http_methods).
image_upload_RejectsOthers(req, db, up) ==
    IF req.method = "POST"
    THEN LET form == UploadForm(req.files) IN
         IF is_valid(form)
         THEN LET s == save(form, db, up) IN
              IF s.raised THEN Result(ServerError, s.db, 1, TRUE)
              ELSE Result(redirect(<<"gallery", "success">>), s.db, 1, FALSE)
         ELSE Result(render("gallery/upload.html", form, {}), db, 0, FALSE)
    ELSE IF req.method = "GET"
         THEN Result(render("gallery/upload.html", UploadForm_unbound, {}), db, 0, FALSE)
         ELSE Result(NotAllowed405, db, 0, FALSE)

\* image_upload(request): POST binds and validates the form; a valid form is
\* saved (an exception of save() leaves the handler) and answered with a
\* redirect to gallery:success; an invalid one falls through to the render of
\* the bound form.  Every other method renders an unbound form.
image_upload(req, db, up) ==
    IF req.method = "POST"
    THEN LET form == UploadForm(req.files) IN
         IF is_valid(form)
         THEN LET s == save(form, db, up) IN
              IF s.raised THEN Result(ServerError, s.db, 1, TRUE)
              ELSE Result(redirect(<<"gallery", "success">>), s.db, 1, FALSE)
         ELSE Result(render("gallery/upload.html", form, {}), db, 0, FALSE)
    ELSE Result(render("gallery/upload.html", UploadForm_unbound, {}), db, 0, FALSE)

\* A success page that answers GET only.
success_GetOnly(req, db) ==
    IF req.method = "GET"
    THEN Result(render("gallery/success.html", NoForm, {}), db, 0, FALSE)
    ELSE Result(NotAllowed405, db, 0, FALSE)

\* success(request): renders the success template, whatever the request.
success(req, db) ==
    Result(render("gallery/success.html", NoForm, {}), db, 0, FALSE)

-----------------------------------------------------------------------------
(* hello/views.py *)

\* IndexView: a list view of Message records; no handler stores a Message and
\* the list is not part of this model.
IndexView(req, db) ==
    IF req.method \in {"GET", "HEAD"}
    THEN Result(render("hello/index.html", NoForm, {}), db, 0, FALSE)
    ELSE Result(NotAllowed405, db, 0, FALSE)

\* second: a placeholder response.
second(req, db) ==
    Result(HttpResponse("plain", 200, NoTemplate, NoForm, {}, NoLocation), db, 0, FALSE)

-----------------------------------------------------------------------------
(* The state machine *)

Init ==
    /\ posts = {}
    /\ nextId = 1
    /\ storageUp = TRUE
    /\ request = NoRequest
    /\ response = NoResponse
    /\ before = {}
    /\ prevResponse = NoResponse
    /\ origin = << >>
    /\ saveCalls = 0
    /\ raised = FALSE

database == [posts |-> posts, nextId |-> nextId]

\* One request handled from arrival to response; res is the handler's result.
Handle(req, res) ==
    /\ Cardinality(res.db.posts) <= MaxPosts
    /\ request' = req
    /\ response' = res.response
    /\ prevResponse' = response
    /\ before' = posts
    /\ posts' = res.db.posts
    /\ nextId' = res.db.nextId
    /\ origin' = [k \in 1..(res.db.nextId - 1) |->
                     IF k \in DOMAIN origin THEN origin[k] ELSE req]
    /\ saveCalls' = res.saveCalls
    /\ raised' = res.raised
    /\ UNCHANGED storageUp

GalleryIndex ==
    \E req \in Requests :
        /\ resolve(req.app, req.path) = "PostListView"
        /\ Handle(req, PostListView(req, database))

ImageUpload ==
    \E req \in Requests :
        /\ resolve(req.app, req.path) = "image_upload"
        /\ Handle(req, image_upload(req, database, storageUp))

Success ==
    \E req \in Requests :
        /\ resolve(req.app, req.path) = "success"
        /\ Handle(req, success(req, database))

HelloIndex ==
    \E req \in Requests :
        /\ resolve(req.app, req.path) = "IndexView"
        /\ Handle(req, IndexView(req, database))

HelloSecond ==
    \E req \in Requests :
        /\ resolve(req.app, req.path) = "second"
        /\ Handle(req, second(req, database))

\* No entry of the app's table matches the path.
NotFound ==
    \E req \in Requests :
        /\ resolve(req.app, req.path) = Resolver404
        /\ Handle(req, Result(NotFound404, database, 0, FALSE))

\* Environment: storage or the database stops accepting writes.
StorageFails ==
    /\ storageUp
    /\ storageUp' = FALSE
    /\ UNCHANGED << posts, nextId, request, response, before, prevResponse,
                    origin, saveCalls, raised >>

\* Environment: storage and the database accept writes again.
StorageRecovers ==
    /\ ~storageUp
    /\ storageUp' = TRUE
    /\ UNCHANGED << posts, nextId, request, response, before, prevResponse,
                    origin, saveCalls, raised >>

Next ==
    \/ GalleryIndex
    \/ ImageUpload
    \/ Success
    \/ HelloIndex
    \/ HelloSecond
    \/ NotFound
    \/ StorageFails
    \/ StorageRecovers

Spec == Init /\ [][Next]_vars

-----------------------------------------------------------------------------
(* Properties *)

UploadTemplate == "gallery/upload.html"

IsUploadRequest ==
    request \in Requests /\ resolve(request.app, request.path) = "image_upload"
IsIndexRequest ==
    request \in Requests /\ resolve(request.app, request.path) = "PostListView"
IsSuccessRequest ==
    request \in Requests /\ resolve(request.app, request.path) = "success"

ValidPost ==
    IsUploadRequest /\ request.method = "POST" /\ is_valid(UploadForm(request.files))
InvalidPost ==
    IsUploadRequest /\ request.method = "POST" /\ ~is_valid(UploadForm(request.files))

StoredOneAndRedirected ==
    /\ before \subseteq posts
    /\ Cardinality(posts) = Cardinality(before) + 1
    /\ response.kind = "redirect"
    /\ response.status = 302
    /\ response.location = reverse(<<"gallery", "success">>)
    /\ response.template # UploadTemplate

C2_InvalidPostRerendersBoundForm ==
    InvalidPost =>
        /\ response.kind = "render"
        /\ response.status = 200
        /\ response.template = UploadTemplate
        /\ response.form = UploadForm(request.files)
        /\ response.form.is_bound
        /\ response.form.errors
        /\ response.location = NoLocation
        /\ posts = before
        /\ saveCalls = 0

C2_Witness ==
    /\ InvalidPost
    /\ request.files = "notes.txt"
    /\ posts # {}
    /\ response.form.errors

\* C3: a GET of image_upload is answered with HTTP 200, the upload template
\* rendered with an unbound UploadForm, whatever came before, and leaves the
\* Post set unchanged.
C3_GetRendersUnboundForm ==
    (IsUploadRequest /\ request.method = "GET") =>
        /\ response.kind = "render"
        /\ response.status = 200
        /\ response.template = UploadTemplate
        /\ response.form = UploadForm_unbound
        /\ ~response.form.is_bound
        /\ ~response.form.errors
        /\ posts = before

\* A GET of the upload page right after an invalid POST was answered.
C3_Witness ==
    /\ IsUploadRequest /\ request.method = "GET"
    /\ request.files = "notes.txt"
    /\ prevResponse.template = UploadTemplate
    /\ prevResponse.form.errors
    /\ response.form = UploadForm_unbound

\* C4: every stored Post was stored by a POST to image_upload whose form was
\* valid, and form.save() is not called while handling any other request.
C4_StoredPostsPassedValidation ==
    /\ \A p \in posts :
          /\ p.id \in DOMAIN origin
          /\ resolve(origin[p.id].app, origin[p.id].path) = "image_upload"
          /\ origin[p.id].method = "POST"
          /\ is_valid(UploadForm(origin[p.id].files))
          /\ p.image = origin[p.id].files
          /\ p.image \in ImageFiles
    /\ saveCalls > 0 => ValidPost

\* Posts are stored, and a PUT carrying an image has just been answered.
C4_Witness ==
    /\ Cardinality(posts) >= 2
    /\ IsUploadRequest
    /\ request.method = "PUT"
    /\ request.files \in ImageFiles

\* C5: a GET of the gallery list renders exactly the Post records stored at
\* the time of the request.
C5_ListShowsStoredPosts ==
    (IsIndexRequest /\ request.method = "GET") =>
        /\ response.kind = "render"
        /\ response.status = 200
        /\ response.template = "gallery/index.html"
        /\ response.object_list = posts
        /\ posts = before

\* The list is requested right after an upload was stored.
C5_Witness ==
    /\ IsIndexRequest /\ request.method = "GET"
    /\ prevResponse.kind = "redirect"
    /\ Cardinality(posts) >= 2
    /\ response.object_list = posts

\* C6: a request to success is answered with HTTP 200, the success template
\* rendered, whatever came before, and leaves the Post set unchanged.
C6_SuccessAlwaysRenders ==
    IsSuccessRequest =>
        /\ response.kind = "render"
        /\ response.status = 200
        /\ response.template = "gallery/success.html"
        /\ posts = before

\* success is requested although nothing was ever uploaded.
C6_Witness ==
    /\ IsSuccessRequest
    /\ request.method = "POST"
    /\ posts = {}
    /\ prevResponse.kind # "redirect"
    /\ response.status = 200

\* C7: the gallery table maps exactly '', 'image_upload' and 'success' to
\* PostListView (name index), image_upload and success under namespace
\* gallery; the hello table maps '' to IndexView (name index) and 'second/' to
\* second under namespace hello; resolving a reversed name gives the handler
\* of that name, and the redirect of image_upload leads to success.
C7_RoutesResolve ==
    /\ gallery_app_name = "gallery"
    /\ hello_app_name = "hello"
    /\ \A p \in Paths :
          resolve("gallery", p) # Resolver404 <=> p \in {"", "image_upload", "success"}
    /\ resolve("gallery", "") = "PostListView"
    /\ resolve("gallery", "image_upload") = "image_upload"
    /\ resolve("gallery", "success") = "success"
    /\ reverse(<<"gallery", "index">>) = ""
    /\ \A p \in Paths : resolve("hello", p) # Resolver404 <=> p \in {"", "second/"}
    /\ resolve("hello", "") = "IndexView"
    /\ resolve("hello", "second/") = "second"
    /\ reverse(<<"hello", "index">>) = ""
    /\ resolve("gallery", reverse(<<"gallery", "index">>)) = "PostListView"
    /\ resolve("gallery", reverse(<<"gallery", "image_upload">>)) = "image_upload"
    /\ resolve("gallery", reverse(<<"gallery", "success">>)) = "success"
    /\ resolve("hello", reverse(<<"hello", "index">>)) = "IndexView"
    /\ resolve("hello", reverse(<<"hello", "second">>)) = "second"
    /\ response.kind = "redirect" =>
          resolve(request.app, response.location) = "success"

C7_Witness ==
    /\ response.kind = "redirect"
    /\ IsUploadRequest
    /\ response.location = "success"

\* C8: over any sequence of requests the Post set only grows, no stored Post
\* is removed or modified, and only a valid POST to image_upload changes it.
C8_PostsOnlyGrow ==
    [][ /\ posts \subseteq posts'
        /\ \A k \in DOMAIN origin : k \in DOMAIN origin' /\ origin'[k] = origin[k]
        /\ posts' # posts =>
              /\ ValidPost'
              /\ Cardinality(posts') = Cardinality(posts) + 1 ]_vars

\* A DELETE sent to the list after two uploads left both in place.
C8_Witness ==
    /\ Cardinality(posts) >= 2
    /\ IsIndexRequest
    /\ request.method = "DELETE"
    /\ posts = before

\* C9: when form.save() raises during a valid POST to image_upload, the
\* response is the unhandled-error response: no redirect, no render of the
\* upload form, and save() was called once.
C9_SaveFailurePropagates ==
    (IsUploadRequest /\ raised) =>
        /\ ValidPost
        /\ response.kind = "error"
        /\ response.status = 500
        /\ response.location = NoLocation
        /\ response.template # UploadTemplate
        /\ saveCalls = 1
        /\ posts = before

C9_Witness ==
    /\ ValidPost
    /\ raised
    /\ ~storageUp
    /\ posts # {}
    /\ response.kind = "error"

\* C10: image_upload treats every method other than POST like GET: HTTP 200,
\* the unbound form rendered, no Post stored, even with an image in the
\* request; no method is rejected.
C10_OtherMethodsLikeGet ==
    /\ (IsUploadRequest /\ request.method # "POST") =>
          /\ response = render(UploadTemplate, UploadForm_unbound, {})
          /\ response.status = 200
          /\ posts = before
          /\ saveCalls = 0
    /\ IsUploadRequest => response.status # 405

C10_Witness ==
    /\ IsUploadRequest
    /\ request.method = "DELETE"
    /\ request.files \in ImageFiles
    /\ response.form = UploadForm_unbound

====
